---- MODULE Spec2Model ----
(***************************************************************************)
(* Crawl orchestration of the AliExpress scraper.                          *)
(*                                                                         *)
(*   Scraper.run (main.py): discover_sellers (search.py) followed by the   *)
(*   semaphore-bounded fan-out of seller tasks and product tasks.          *)
(*   run_with_scrapfly (scrapfly_adapter.py): the sequential Scrapfly      *)
(*   pipeline, search_products_sf followed by the two loops of the run.    *)
(*   exponential_backoff_retry (utils.py) and the navigation retry loops   *)
(*   of search.py, seller.py and product.py.                               *)
(*                                                                         *)
(* URLs are strings, modelled as sequences of one-character strings, so    *)
(* that canonicalisation (str.split("?")[0]) is computed and not assumed.  *)
(***************************************************************************)
EXTENDS Integers, Sequences, FiniteSets, TLC

VARIABLES
    cfg,            \* Config of the Scraper (config.py)
    pc,             \* position of Scraper.run
    sellers,        \* discover_sellers: list of (seller_url, product_urls)
    seen_sellers,   \* discover_sellers: set of canonical seller URLs
    processed,      \* discover_sellers: number of items counted
    page_num,       \* discover_sellers: number of the page to fetch next
    scanned,        \* history: the items counted by discover_sellers, in order
    sellers_info,   \* Scraper.run: what discover_sellers returned
    sem,            \* Scraper._sem: free permits of the semaphore
    seller_task,    \* position of each safe_handle_seller task
    product_task,   \* position of each handle_product task, per seller
    result,         \* ScrapeResult.suppliers
    run_exc,        \* the exception Scraper.run raised, if any
    warnings,       \* the units Scraper.run logged a warning for
    overtook,       \* history: the product tasks that returned a product
                    \* before an earlier product task of their seller ended
    sf_pc,          \* position of run_with_scrapfly
    page,           \* search_products_sf: number of the page to fetch next
    results,        \* search_products_sf: the previews found so far
    previews,       \* run_with_scrapfly: what search_products_sf returned
    next_preview,   \* run_with_scrapfly: index of the preview the first loop is at
    sellers_map,    \* run_with_scrapfly: store URL -> products, in insertion order
    processed_products, \* run_with_scrapfly: products attributed to a store
    next_store,     \* run_with_scrapfly: index of the entry the second loop is at
    seller_count,   \* run_with_scrapfly: sellers appended to the result
    sf_result,      \* run_with_scrapfly: ScrapeResult.suppliers
    r_kind,         \* which retry loop the invocations run
    r_retries,      \* retries of the loop
    r_pc,           \* position of each invocation
    r_attempt,      \* attempt of each invocation
    r_delay,        \* delay of each invocation, in milliseconds
    r_last_exc,     \* last_exc of each invocation
    r_calls,        \* history: outcome of every call each invocation made
    r_sleeps,       \* history: sleeps each invocation started
    f_name,         \* the pure function that is called
    f_arg,          \* its argument
    f_pc,           \* position of the call
    f_ret           \* what it returned

runVars == <<cfg, pc, sellers, seen_sellers, processed, page_num, scanned,
             sellers_info, sem, seller_task, product_task, result, run_exc,
             warnings, overtook>>

sfVars == <<sf_pc, page, results, previews, next_preview, sellers_map,
            processed_products, next_store, seller_count, sf_result>>

retryVars == <<r_kind, r_retries, r_pc, r_attempt, r_delay, r_last_exc, r_calls, r_sleeps>>

fnVars == <<f_name, f_arg, f_pc, f_ret>>

----------------------------------------------------------------------------
(* Bounds of the model *)

MaxConcurrency == 2
MaxSuppliers == 2
MaxProductsPerSeller == 2
MaxLimit == 3
MaxPageNum == 4

(* Program constants *)

NavRetries == 3

----------------------------------------------------------------------------
(* Strings and URLs *)

NoUrl == <<>>

Range(s) == {s[i] : i \in 1..Len(s)}

Min(a, b) == IF a <= b THEN a ELSE b

\* s[:n] of Python for n >= 0
Take(s, n) == SubSeq(s, 1, Min(n, Len(s)))

\* index of the first "?" of u, or Len(u) + 1 when there is none
RECURSIVE FindQuery(_, _)
FindQuery(u, i) ==
    IF i > Len(u) THEN i
    ELSE IF u[i] = "?" THEN i
    ELSE FindQuery(u, i + 1)

\* the same, without stripping anything
CanonKeepQuery(u) == u

\* seller_url.split("?")[0]
Canon(u) == SubSeq(u, 1, FindQuery(u, 1) - 1)

\* store links a page can carry: two stores, one of them also under a link
\* with a query string
SellerHrefs == {<<"a">>, <<"a", "?", "x">>, <<"b">>}

\* product links a page can carry: one with the product id after "item/",
\* one with a title between "item/" and the id
ProductHrefs == {<<"i", "t", "e", "m", "/", "1", "0", "0", "5", "0", "0", "1", "2", "3", "4">>,
                 <<"i", "t", "e", "m", "/", "t", "/", "1", "0", "0", "5", "0", "0", "1", "2", "3", "4">>}

\* a search-result item: its product link and its store link, each possibly missing
Items == [href : ProductHrefs \cup {NoUrl}, seller : SellerHrefs \cup {NoUrl}]

\* str.find(ch, i): index of the first ch of u at or after i, Len(u) + 1 if none
RECURSIVE FindChar(_, _, _)
FindChar(u, ch, i) ==
    IF i > Len(u) THEN i
    ELSE IF u[i] = ch THEN i
    ELSE FindChar(u, ch, i + 1)

\* u[s:].startswith(pat)
StartsWithAt(u, s, pat) ==
    /\ s + Len(pat) - 1 <= Len(u)
    /\ SubSeq(u, s, s + Len(pat) - 1) = pat

\* index of the last occurrence of pat in u, 0 if none
RECURSIVE FindLast(_, _, _)
FindLast(u, pat, s) ==
    IF s < 1 THEN 0
    ELSE IF StartsWithAt(u, s, pat) THEN s
    ELSE FindLast(u, pat, s - 1)

----------------------------------------------------------------------------
(* parsers.py 13-19: PRODUCT_ID_REGEX and parse_product_id *)

\* an Optional value: <<>> is None, <<v>> is the value v
None == <<>>

Some(v) == <<v>>

Digits == {"0", "1", "2", "3", "4", "5", "6", "7", "8", "9"}

\* the least number of digits of \d{10,}
MinIdDigits == 10

ItemSlash == <<"i", "t", "e", "m", "/">>

SlashItemSlash == <<"/", "i", "t", "e", "m", "/">>

\* the digits are matched up to MinIdDigits of them only
RECURSIVE DigitRunLenCapped(_, _)
DigitRunLenCapped(u, s) ==
    IF s > Len(u) \/ u[s] \notin Digits THEN 0
    ELSE LET rest == DigitRunLenCapped(u, s + 1) IN
         IF rest >= MinIdDigits THEN MinIdDigits ELSE 1 + rest

\* \d{10,} is greedy: the number of digits of u from s on
RECURSIVE DigitRunLen(_, _)
DigitRunLen(u, s) ==
    IF s > Len(u) \/ u[s] \notin Digits THEN 0
    ELSE 1 + DigitRunLen(u, s + 1)

\* the regex tried at s, first alternative first: the index where group 1
\* starts, 0 when there is no match at s
MatchAt(u, s) ==
    IF StartsWithAt(u, s, SlashItemSlash) /\ DigitRunLen(u, s + Len(SlashItemSlash)) >= MinIdDigits
    THEN s + Len(SlashItemSlash)
    ELSE IF StartsWithAt(u, s, ItemSlash) /\ DigitRunLen(u, s + Len(ItemSlash)) >= MinIdDigits
    THEN s + Len(ItemSlash)
    ELSE 0

\* PRODUCT_ID_REGEX.search(url): the leftmost match
RECURSIVE Search(_, _)
Search(u, s) ==
    IF s > Len(u) THEN 0
    ELSE IF MatchAt(u, s) # 0 THEN MatchAt(u, s)
    ELSE Search(u, s + 1)

parse_product_id(url) ==
    LET g == Search(url, 1) IN
    IF g = 0 THEN None ELSE Some(SubSeq(url, g, g + DigitRunLen(url, g) - 1))

\* product.py 31 and 53-65: the Product scrape_product builds for url
scrape_product(url) ==
    LET m == parse_product_id(url) IN
    [product_url |-> url, product_id |-> IF m = None THEN <<>> ELSE m[1]]

\* scrapfly_adapter.py 358: url.split("item/")[-1].split(".")[0]
SfProductId(url) ==
    LET at == FindLast(url, ItemSlash, Len(url))
        tail == IF at = 0 THEN url ELSE SubSeq(url, at + Len(ItemSlash), Len(url)) IN
    SubSeq(tail, 1, FindChar(tail, ".", 1) - 1)

\* scrapfly_adapter.py 358-372: the Product scrape_product_and_store_sf builds
ProductSf(url) == [product_url |-> url, product_id |-> SfProductId(url)]

----------------------------------------------------------------------------
(* parsers.py 30-39: detect_antibot *)

LowerCase ==
    <<"a", "b", "c", "d", "e", "f", "g", "h", "i", "j", "k", "l", "m", "n", "o", "p", "q", "r", "s", "t", "u", "v", "w", "x", "y", "z">>

UpperCase ==
    <<"A", "B", "C", "D", "E", "F", "G", "H", "I", "J", "K", "L", "M", "N", "O", "P", "Q", "R", "S", "T", "U", "V", "W", "X", "Y", "Z">>

\* the letters are left as they are
lowerKeep(text) == text

\* str.lower() on ASCII text
lower(text) ==
    [k \in 1..Len(text) |->
       IF \E n \in 1..Len(UpperCase) : UpperCase[n] = text[k]
       THEN LowerCase[CHOOSE n \in 1..Len(UpperCase) : UpperCase[n] = text[k]]
       ELSE text[k]]

\* parsers.py 32-38
indicators ==
    <<<<"c", "a", "p", "t", "c", "h", "a">>,
      <<"v", "e", "r", "i", "f", "y", " ", "y", "o", "u", " ", "a", "r", "e", " ", "h", "u", "m", "a", "n">>,
      <<"c", "l", "o", "u", "d", "f", "l", "a", "r", "e">>,
      <<"a", "t", "t", "e", "n", "t", "i", "o", "n", " ", "r", "e", "q", "u", "i", "r", "e", "d">>,
      <<"u", "n", "u", "s", "u", "a", "l", " ", "t", "r", "a", "f", "f", "i", "c">>>>

\* `ind in html`
Contains(html, ind) == \E s \in 1..(Len(html) + 1) : StartsWithAt(html, s, ind)

detect_antibot(html) ==
    LET html_lower == lower(html) IN
    \E n \in 1..Len(indicators) : Contains(html_lower, indicators[n])

\* product.py 27-31 and 53-65: what scrape_product does with the content of
\* the page it fetched; None stands for raise AntiBotDetected
product_of_page(url, html) ==
    IF detect_antibot(html) THEN None ELSE Some(scrape_product(url))

\* scrapfly_adapter.py 117-123 and 358-372: what scrape_product_and_store_sf
\* does with the response; the content is given to the Selector as it is,
\* None stands for return None, None
product_of_response_sf(url, status_code, content) ==
    IF status_code # 200 THEN None ELSE Some(ProductSf(url))

----------------------------------------------------------------------------
(* Ratings: seller.py 75-84, product.py 90-99, scrapfly_adapter.py 683-697 *)

\* a float is kept as a whole number of 1/Scale
Scale == 10000

DigitChars == <<"0", "1", "2", "3", "4", "5", "6", "7", "8", "9">>

DigitVal(c) == (CHOOSE n \in 1..10 : DigitChars[n] = c) - 1

\* int(ds) for a run of digits, 0 for the empty run
RECURSIVE IntOf(_)
IntOf(ds) ==
    IF ds = <<>> THEN 0
    ELSE IntOf(SubSeq(ds, 1, Len(ds) - 1)) * 10 + DigitVal(ds[Len(ds)])

\* float(num) for a text of digits and dots: ValueError (None here) unless
\* there is a digit and at most one dot
ParseFloat(num) ==
    LET dots == {k \in 1..Len(num) : num[k] = "."} IN
    IF Cardinality(dots) > 1 \/ Cardinality(dots) = Len(num) THEN None
    ELSE LET d == FindChar(num, ".", 1)
             frac == SubSeq(num, d + 1, Len(num)) IN
         Some(IntOf(SubSeq(num, 1, d - 1)) * Scale
              + IntOf(SubSeq(frac \o <<"0", "0", "0", "0">>, 1, 4)))

\* t.replace(",", ".") and then the digits and dots of t
NumberChars(t) ==
    SelectSeq([k \in 1..Len(t) |-> IF t[k] = "," THEN "." ELSE t[k]],
              LAMBDA ch : ch \in Digits \/ ch = ".")

\* seller.py 75-84: t is the text _text_sel found, None when it found none
float_sel(t) ==
    IF t = None \/ t[1] = <<>> THEN None
    ELSE ParseFloat(NumberChars(t[1]))

\* product.py 90-99: the same code on the text _first_text found
first_number(t) ==
    IF t = None \/ t[1] = <<>> THEN None
    ELSE ParseFloat(NumberChars(t[1]))

\* (\d+\.?\d*)(?:%|/5) tried at s: the index after group 1, 0 without a match
RatingMatchAt(text, s) ==
    LET a == DigitRunLen(text, s)
        dot == a > 0 /\ s + a <= Len(text) /\ text[s + a] = "."
        b == IF dot THEN DigitRunLen(text, s + a + 1) ELSE 0
        e == IF dot THEN s + a + 1 + b ELSE s + a IN
    IF a > 0 /\ (StartsWithAt(text, e, <<"%">>) \/ StartsWithAt(text, e, <<"/", "5">>))
    THEN e
    ELSE 0

\* re.search: the leftmost s with a match, 0 when there is none
RECURSIVE RatingSearch(_, _)
RatingSearch(text, s) ==
    IF s > Len(text) THEN 0
    ELSE IF RatingMatchAt(text, s) # 0 THEN s
    ELSE RatingSearch(text, s + 1)

\* scrapfly_adapter.py 690-694: a value up to 5 is a rating, a value up to
\* 100 a percentage, anything above leaves the rating None
Rescale(rating_val) ==
    IF rating_val <= 5 * Scale THEN Some(rating_val)
    ELSE IF rating_val <= 100 * Scale THEN Some(rating_val \div 20)
    ELSE None

\* scrapfly_adapter.py 679-697: the loop over rating_text[:5], left at the
\* first text with a match
RECURSIVE seller_rating_sf(_)
seller_rating_sf(rating_text) ==
    IF rating_text = <<>> THEN None
    ELSE LET text == rating_text[1]
             s == RatingSearch(text, 1) IN
         IF s = 0 THEN seller_rating_sf(SubSeq(rating_text, 2, Len(rating_text)))
         ELSE Rescale(ParseFloat(SubSeq(text, s, RatingMatchAt(text, s) - 1))[1])

----------------------------------------------------------------------------
(* CleanerAgent.clean without a client: server.py 136-224 and 280-423 *)

\* str.replace(old, "") for a one-character old
Remove(text, old) == SelectSeq(text, LAMBDA ch : ch # old)

\* str.strip() of the blanks float() ignores around a number
RECURSIVE Strip(_)
Strip(text) ==
    IF text = <<>> THEN text
    ELSE IF text[1] = " " THEN Strip(SubSeq(text, 2, Len(text)))
    ELSE IF text[Len(text)] = " " THEN Strip(SubSeq(text, 1, Len(text) - 1))
    ELSE text

\* float(text): None stands for the ValueError
float(text) ==
    LET num == Strip(text) IN
    IF \E k \in 1..Len(num) : num[k] \notin Digits \cup {"."} THEN None
    ELSE ParseFloat(num)

\* server.py 382-386: the products with a truthy price, each price through
\* float(price.replace("$", "").replace(",", ""))
price_ranges(products) ==
    LET priced == SelectSeq(products, LAMBDA p : p.price # None /\ p.price[1] # <<>>) IN
    [k \in 1..Len(priced) |-> float(Remove(Remove(priced[k].price[1], "$"), ","))]

RECURSIVE Sum(_)
Sum(xs) == IF xs = <<>> THEN 0 ELSE xs[1][1] + Sum(SubSeq(xs, 2, Len(xs)))

\* server.py 280-423 for products without rating and num_orders, which the
\* sort leaves in their order; None when the list comprehension of 382-386
\* raises ValueError
local_fallback_clean(products) ==
    LET ranges == price_ranges(products) IN
    IF \E k \in 1..Len(ranges) : ranges[k] = None THEN None
    ELSE Some([top_products |-> SubSeq(products, 1, IF Len(products) < 10 THEN Len(products) ELSE 10),
               top_sellers |-> <<[num_products |-> Len(products)]>>,
               insights |-> <<"suppliers", "rating", "highly-rated", "high-volume", "orders">>,
               market_analysis |->
                   [total_products |-> Len(products),
                    avg_price |-> IF ranges = <<>> THEN 0 ELSE Sum(ranges) \div Len(ranges)],
               recommendations |-> <<"focus", "bulk", "seasonal", "multiple">>,
               risk_factors |-> <<"shipping", "returns", "quality", "currency">>])

----------------------------------------------------------------------------
(* Navigation retry loop: search.py 41-52, seller.py 15-26, product.py 16-26 *)

GotoOutcomes == {"ok", "pwerror"}

\* the loop gives up one attempt too late
NavStepLate(attempt, outcome, retries) ==
    IF outcome = "ok" THEN "break"
    ELSE IF attempt = retries THEN "raise"
    ELSE "sleep"

\* one iteration of `for attempt in range(retries)`: page.goto either returns
\* (break), or raises PWError, which is re-raised on the last attempt and
\* followed by a sleep otherwise
NavStep(attempt, outcome, retries) ==
    IF outcome = "ok" THEN "break"
    ELSE IF attempt = retries - 1 THEN "raise"
    ELSE "sleep"

\* the whole loop, for the outcomes the successive page.goto calls would have
RECURSIVE NavRun(_, _, _)
NavRun(outcomes, attempt, retries) ==
    IF attempt >= retries THEN [status |-> "exhausted", attempts |-> attempt, sleeps |-> attempt]
    ELSE LET step == NavStep(attempt, outcomes[attempt], retries) IN
         IF step = "break" THEN [status |-> "ok", attempts |-> attempt + 1, sleeps |-> attempt]
         ELSE IF step = "raise" THEN [status |-> "raise", attempts |-> attempt + 1, sleeps |-> attempt]
         ELSE NavRun(outcomes, attempt + 1, retries)

NavLoop(outcomes) == NavRun(outcomes, 0, NavRetries)

NavOutcomes == [0..(NavRetries - 1) -> GotoOutcomes]

\* what a page fetch of Scraper.run ends in: the navigation loop, then
\* detect_antibot on the content of the page
FetchOutcome(outcomes, blocked) ==
    IF NavLoop(outcomes).status = "raise" THEN "transport"
    ELSE IF blocked THEN "antibot"
    ELSE "ok"

\* the ends a page fetch can have, over every course of its navigation loop
FetchOutcomes ==
    {FetchOutcome(outcomes, blocked) : outcomes \in NavOutcomes, blocked \in BOOLEAN}

----------------------------------------------------------------------------
(* discover_sellers, search.py 25-98 *)

NoExc == [kind |-> "none", by |-> -1]


\* search.py 89-93: append href to the first entry of the seller that lacks it
AppendProduct(ss, key, href) ==
    LET idx == {i \in 1..Len(ss) :
                  ss[i].seller_url = key /\ href \notin Range(ss[i].product_urls)} IN
    IF idx = {} THEN ss
    ELSE LET i == CHOOSE k \in idx : \A m \in idx : k <= m IN
         [ss EXCEPT ![i].product_urls = Append(@, href)]

\* search.py 67-94: the body of `for item in items`, past the limit test
ProcessItem(it) ==
    IF it.href = NoUrl \/ it.seller = NoUrl
    THEN UNCHANGED <<sellers, seen_sellers, processed, scanned>>
    ELSE LET key == Canon(it.seller) IN
         /\ IF key \notin seen_sellers
            THEN /\ seen_sellers' = seen_sellers \cup {key}
                 /\ sellers' = Append(sellers, [seller_url |-> key, product_urls |-> <<it.href>>])
            ELSE /\ seen_sellers' = seen_sellers
                 /\ sellers' = AppendProduct(sellers, key, it.href)
         /\ processed' = processed + 1
         /\ scanned' = Append(scanned, it)

\* search.py 38: the condition of the page loop
WhileCond == processed < cfg.limit /\ Len(sellers) < cfg.max_suppliers

\* search.py 38 and 97: the page loop is entered again, or the function returns
DiscoverWhile ==
    /\ pc = "while"
    /\ UNCHANGED overtook
    /\ UNCHANGED <<sfVars, retryVars, fnVars, warnings>>
    /\ IF WhileCond
       THEN /\ page_num <= MaxPageNum
            /\ pc' = "goto"
            /\ UNCHANGED sellers_info
       ELSE /\ pc' = "discovered"
            /\ sellers_info' = Take(sellers, cfg.max_suppliers)
    /\ UNCHANGED <<cfg, sellers, seen_sellers, processed, page_num, scanned,
                   sem, seller_task, product_task, result, run_exc>>

\* search.py 41-56 with main.py 64-68: the page is fetched (no permit is
\* taken) and its content checked; Scraper.run re-raises AntiBotDetected or
\* goes on with no seller
DiscoverGoto ==
    /\ pc = "goto"
    /\ UNCHANGED overtook
    /\ UNCHANGED <<sfVars, retryVars, fnVars>>
    /\ \E out \in FetchOutcomes :
         CASE out = "transport" ->
                /\ pc' = "raised"
                /\ run_exc' = [kind |-> "transport", by |-> 0]
                /\ UNCHANGED <<sellers_info, warnings>>
           [] out = "antibot" /\ cfg.abort_on_antibot ->
                /\ pc' = "raised"
                /\ run_exc' = [kind |-> "antibot", by |-> 0]
                /\ UNCHANGED <<sellers_info, warnings>>
           [] out = "antibot" /\ ~cfg.abort_on_antibot ->
                /\ pc' = "discovered"
                /\ sellers_info' = <<>>
                /\ warnings' = warnings \cup {<<"search", 0, 0>>}
                /\ UNCHANGED run_exc
           [] out = "ok" ->
                /\ pc' = "items"
                /\ UNCHANGED <<sellers_info, run_exc, warnings>>
    /\ UNCHANGED <<cfg, sellers, seen_sellers, processed, page_num, scanned,
                   sem, seller_task, product_task, result>>

\* search.py 64-94: one more item of the page, while the limit is not reached
DiscoverItem ==
    /\ pc = "items"
    /\ UNCHANGED overtook
    /\ UNCHANGED <<sfVars, retryVars, fnVars, warnings>>
    /\ processed < cfg.limit
    /\ \E it \in Items : ProcessItem(it)
    /\ UNCHANGED <<cfg, pc, page_num, sellers_info, sem, seller_task,
                   product_task, result, run_exc>>

\* search.py 96: page_num += 1; the pages after MaxPageNum are not told apart
NextPage(n) == IF n > MaxPageNum THEN n ELSE n + 1

\* search.py 64-66 and 95-96: the items are exhausted or the limit is
\* reached; on to the next page
DiscoverEndPage ==
    /\ pc = "items"
    /\ UNCHANGED overtook
    /\ UNCHANGED <<sfVars, retryVars, fnVars, warnings>>
    /\ page_num' = NextPage(page_num)
    /\ pc' = "while"
    /\ UNCHANGED <<cfg, sellers, seen_sellers, processed, scanned, sellers_info,
                   sem, seller_task, product_task, result, run_exc>>

\* search.py 38-41: the page loop is entered again after MaxPageNum pages
\* too; nothing but its condition ends it
DiscoverWhileBeyond ==
    /\ pc = "while"
    /\ WhileCond
    /\ page_num > MaxPageNum
    /\ pc' = "goto"
    /\ UNCHANGED overtook
    /\ UNCHANGED <<sfVars, retryVars, fnVars, warnings>>
    /\ UNCHANGED <<cfg, sellers, seen_sellers, processed, page_num, scanned,
                   sellers_info, sem, seller_task, product_task, result, run_exc>>

----------------------------------------------------------------------------
(* Scraper.run, main.py 47-112: the fan-out over sellers and products *)

\* the seller tasks started so far
SellerIds == DOMAIN seller_task

ProductIds(i) == 1..Len(product_task[i])

Settled == {"ok", "transport", "antibot"}

\* the semaphore never blocks
SemLockedNever == FALSE

\* no permit is handed out once Scraper.run has raised
SemLockedAfterRaise == sem = 0 \/ pc = "raised"

\* asyncio.Semaphore.locked(): `async with self._sem` waits while it holds
SemLocked == sem = 0

\* nothing is cut off the list of product URLs
SubmittedUrlsAll(i) == sellers_info[i].product_urls

\* main.py 81: urls = product_urls[: self.cfg.max_products_per_seller]
SubmittedUrls(i) == Take(sellers_info[i].product_urls, cfg.max_products_per_seller)

\* the products of a seller are dropped as soon as one of them failed
CollectedAllOrNothing(i) ==
    IF \A j \in ProductIds(i) : product_task[i][j] = "ok"
    THEN [j \in 1..Len(SubmittedUrls(i)) |-> scrape_product(SubmittedUrls(i)[j])]
    ELSE <<>>

\* the products of a seller are collected last first
CollectedNewestFirst(i) ==
    LET urls == SubmittedUrls(i) IN
    LET F[j \in 0..Len(urls)] ==
          IF j = 0 THEN <<>>
          ELSE IF product_task[i][j] = "ok" THEN <<scrape_product(urls[j])>> \o F[j - 1]
          ELSE F[j - 1]
    IN F[Len(urls)]

\* main.py 90-95: the products gathered for seller i, in the order of urls,
\* the exceptions (return_exceptions=True) logged and left out
Collected(i) ==
    LET urls == SubmittedUrls(i) IN
    LET F[j \in 0..Len(urls)] ==
          IF j = 0 THEN <<>>
          ELSE IF product_task[i][j] = "ok" THEN Append(F[j - 1], scrape_product(urls[j]))
          ELSE F[j - 1]
    IN F[Len(urls)]

\* AntiBotDetected leaves safe_handle_seller whatever the configuration
AntiBotPropagatesAlways == TRUE

\* main.py 102-105: safe_handle_seller re-raises AntiBotDetected only when
\* abort_on_antibot is set
AntiBotPropagates == cfg.abort_on_antibot

\* main.py 107: gather(..., return_exceptions=False) hands the first exception
\* of a seller task to Scraper.run; the other tasks are left running
RaiseFrom(i, kind) ==
    IF pc = "gather"
    THEN pc' = "raised" /\ run_exc' = [kind |-> kind, by |-> i]
    ELSE UNCHANGED <<pc, run_exc>>

\* main.py 70-107: the result is created and one task per seller is started;
\* the frame of discover_sellers is gone
StartGather ==
    /\ pc = "discovered"
    /\ UNCHANGED overtook
    /\ UNCHANGED <<sfVars, retryVars, fnVars, warnings>>
    /\ pc' = "gather"
    /\ result' = <<>>
    /\ seller_task' = [i \in 1..Len(sellers_info) |-> "start"]
    /\ product_task' = [i \in 1..Len(sellers_info) |-> <<>>]
    /\ sellers' = <<>>
    /\ seen_sellers' = {}
    /\ processed' = 0
    /\ page_num' = 1
    /\ scanned' = <<>>
    /\ UNCHANGED <<cfg, sellers_info, sem, run_exc>>

\* the permit is kept
KeepPermit(permits, out) == permits

\* the permit is given back only when the fetch succeeded
ReleaseOnSuccess(permits, out) == IF out = "ok" THEN permits + 1 ELSE permits

\* main.py 75-76 and 86-87: `async with self._sem` is left, by return or by
\* exception, and gives the permit back
Release(permits, out) == permits + 1

\* main.py 73-75: after its delay the seller task takes a permit
AcquireSeller(i) ==
    /\ seller_task[i] = "start"
    /\ UNCHANGED overtook
    /\ UNCHANGED <<sfVars, retryVars, fnVars, warnings>>
    /\ ~SemLocked
    /\ sem' = sem - 1
    /\ seller_task' = [seller_task EXCEPT ![i] = "fetching"]
    /\ UNCHANGED <<cfg, pc, sellers, seen_sellers, processed, page_num, scanned,
                   sellers_info, product_task, result, run_exc>>

\* main.py 75-90 and 99-105: scrape_seller ends, the permit is given back;
\* the seller's product tasks are started, or the exception reaches
\* safe_handle_seller
FinishSeller(i) ==
    /\ seller_task[i] = "fetching"
    /\ UNCHANGED overtook
    /\ UNCHANGED <<sfVars, retryVars, fnVars>>
    /\ \E out \in FetchOutcomes :
         /\ sem' = Release(sem, out)
         /\ CASE out = "ok" ->
                /\ seller_task' = [seller_task EXCEPT ![i] = "products"]
                /\ product_task' = [product_task EXCEPT
                                      ![i] = [j \in 1..Len(SubmittedUrls(i)) |-> "start"]]
                /\ UNCHANGED <<pc, run_exc, warnings>>
           [] out = "transport" ->
                /\ seller_task' = [seller_task EXCEPT ![i] = "raised_transport"]
                /\ RaiseFrom(i, "transport")
                /\ UNCHANGED <<product_task, warnings>>
           [] out = "antibot" /\ AntiBotPropagates ->
                /\ seller_task' = [seller_task EXCEPT ![i] = "raised_antibot"]
                /\ RaiseFrom(i, "antibot")
                /\ UNCHANGED <<product_task, warnings>>
           [] out = "antibot" /\ ~AntiBotPropagates ->
                /\ seller_task' = [seller_task EXCEPT ![i] = "skipped"]
                /\ warnings' = warnings \cup {<<"seller", i, 0>>}
                /\ UNCHANGED <<pc, run_exc, product_task>>
    /\ UNCHANGED <<cfg, sellers, seen_sellers, processed, page_num, scanned,
                   sellers_info, result>>

\* main.py 84-86: after its delay the product task takes a permit
AcquireProduct(i, j) ==
    /\ product_task[i][j] = "start"
    /\ UNCHANGED overtook
    /\ UNCHANGED <<sfVars, retryVars, fnVars, warnings>>
    /\ ~SemLocked
    /\ sem' = sem - 1
    /\ product_task' = [product_task EXCEPT ![i][j] = "fetching"]
    /\ UNCHANGED <<cfg, pc, sellers, seen_sellers, processed, page_num, scanned,
                   sellers_info, seller_task, result, run_exc>>

\* main.py 86-88: scrape_product ends, the permit is given back; the task
\* ends with the Product or with the exception
FinishProduct(i, j) ==
    /\ product_task[i][j] = "fetching"
    /\ UNCHANGED <<sfVars, retryVars, fnVars, warnings>>
    /\ \E out \in FetchOutcomes :
         /\ sem' = Release(sem, out)
         /\ product_task' = [product_task EXCEPT ![i][j] = out]
    /\ overtook' = IF /\ product_task'[i][j] = "ok"
                      /\ \E k \in 1..(j - 1) : product_task[i][k] \notin Settled
                   THEN overtook \cup {<<i, j>>}
                   ELSE overtook
    /\ UNCHANGED <<cfg, pc, sellers, seen_sellers, processed, page_num, scanned,
                   sellers_info, seller_task, result, run_exc>>

\* a seller without any product is left out
AppendSellerWithProducts(suppliers, seller) ==
    IF seller.products = <<>> THEN suppliers ELSE Append(suppliers, seller)

\* main.py 97: result.suppliers.append(seller), whatever seller.products holds
AppendSeller(suppliers, seller) == Append(suppliers, seller)

\* the seller task does not wait for its product tasks
ProductsSettledOrNot(i) == TRUE

\* main.py 90: the inner gather returns when every product task has ended
ProductsSettled(i) == \A j \in ProductIds(i) : product_task[i][j] \in Settled

\* main.py 90-97: every product task of the seller has ended; the products
\* are collected and the seller is appended to the result
AggregateSeller(i) ==
    /\ seller_task[i] = "products"
    /\ UNCHANGED overtook
    /\ UNCHANGED <<sfVars, retryVars, fnVars>>
    /\ ProductsSettled(i)
    /\ result' = AppendSeller(result, [seller_url |-> sellers_info[i].seller_url,
                                       products |-> Collected(i)])
    /\ seller_task' = [seller_task EXCEPT ![i] = "done"]
    /\ warnings' = warnings \cup {<<"product", i, j>> : j \in {k \in ProductIds(i) : product_task[i][k] # "ok"}}
    /\ UNCHANGED <<cfg, pc, sellers, seen_sellers, processed, page_num, scanned,
                   sellers_info, sem, product_task, run_exc>>

\* main.py 107-112: every seller task has ended without an exception
RunReturn ==
    /\ pc = "gather"
    /\ UNCHANGED overtook
    /\ UNCHANGED <<sfVars, retryVars, fnVars, warnings>>
    /\ \A i \in SellerIds : seller_task[i] \in {"done", "skipped"}
    /\ pc' = "returned"
    /\ UNCHANGED <<cfg, sellers, seen_sellers, processed, page_num, scanned,
                   sellers_info, sem, seller_task, product_task, result, run_exc>>

----------------------------------------------------------------------------
(* run_with_scrapfly and search_products_sf, scrapfly_adapter.py *)

MaxPageItems == 2

SfPageCap == 3

\* what one search page can list: up to MaxPageItems previews
SfPages == UNION {[1..n -> ProductHrefs] : n \in 0..MaxPageItems}

\* store links a product page can carry: absolute or relative, with or
\* without a query string
StoreLinks == {<<"h", "a">>, <<"a">>, <<"h", "a", "?", "x">>, <<"h", "b">>}

\* scrapfly_adapter.py 385-388: the first store link, made absolute
StoreUrl(link) == IF link[1] = "h" THEN link ELSE <<"h">> \o link


\* scrapfly_adapter.py 860-862: the product is appended to the entry of its
\* store, which is created at the end of the map when missing
AddToMap(map, store_url, product) ==
    LET idx == {i \in 1..Len(map) : map[i].store_url = store_url} IN
    IF idx = {} THEN Append(map, [store_url |-> store_url, products |-> <<product>>])
    ELSE LET i == CHOOSE k \in idx : TRUE IN
         [map EXCEPT ![i].products = Append(@, product)]

\* scrapfly_adapter.py 87-88: the first page is fetched; an error of the
\* client leaves search_products_sf and run_with_scrapfly
SfSearchFirst ==
    /\ sf_pc = "search"
    /\ UNCHANGED <<runVars, retryVars, fnVars>>
    /\ \/ \E content \in SfPages :
            /\ results' = content
            /\ page' = 2
            /\ sf_pc' = "search_loop"
       \/ /\ sf_pc' = "raised"
          /\ UNCHANGED <<results, page>>
    /\ UNCHANGED <<previews, next_preview, sellers_map, processed_products,
                   next_store, seller_count, sf_result>>

\* scrapfly_adapter.py 91-96 and 839-844: one more page while the limit is
\* not reached and the page cap allows; then the previews are cut to limit,
\* and a run without previews returns an empty result
SfSearchNext ==
    /\ sf_pc = "search_loop"
    /\ UNCHANGED <<runVars, retryVars, fnVars>>
    /\ IF Len(results) < cfg.limit /\ page <= SfPageCap
       THEN /\ \/ \E content \in SfPages :
                    /\ results' = results \o content
                    /\ page' = page + 1
                    /\ sf_pc' = "search_loop"
               \/ /\ sf_pc' = "raised"
                  /\ UNCHANGED <<results, page>>
            /\ UNCHANGED previews
       ELSE /\ previews' = Take(results, cfg.limit)
            /\ sf_pc' = IF previews' = <<>> THEN "returned" ELSE "products"
            /\ UNCHANGED <<results, page>>
    /\ UNCHANGED <<next_preview, sellers_map, processed_products,
                   next_store, seller_count, sf_result>>

\* scrapfly_adapter.py 850-873: one round of the loop over the previews;
\* scrape_product_and_store_sf gives nothing, a product without a store, or
\* a product with the link of its store
SfProduct ==
    /\ sf_pc = "products"
    /\ UNCHANGED <<runVars, retryVars, fnVars>>
    /\ IF \/ next_preview > Len(previews)
          \/ processed_products >= cfg.limit
          \/ Len(sellers_map) >= cfg.max_suppliers
       THEN /\ sf_pc' = "sellers"
            /\ UNCHANGED <<next_preview, sellers_map, processed_products>>
       ELSE /\ next_preview' = next_preview + 1
            /\ sf_pc' = "products"
            /\ \/ UNCHANGED <<sellers_map, processed_products>>
               \/ \E link \in StoreLinks :
                    /\ sellers_map' = AddToMap(sellers_map, StoreUrl(link),
                                               ProductSf(previews[next_preview]))
                    /\ processed_products' = processed_products + 1
    /\ UNCHANGED <<page, results, previews, next_store, seller_count, sf_result>>

\* scrapfly_adapter.py 881-901: one round of the loop over sellers_map;
\* scrape_seller_sf always returns a Seller
SfSeller ==
    /\ sf_pc = "sellers"
    /\ UNCHANGED <<runVars, retryVars, fnVars>>
    /\ IF next_store > Len(sellers_map) \/ seller_count >= cfg.max_suppliers
       THEN /\ sf_pc' = "returned"
            /\ UNCHANGED <<next_store, seller_count, sf_result>>
       ELSE /\ sf_result' = Append(sf_result,
                  [seller_url |-> sellers_map[next_store].store_url,
                   products |-> Take(sellers_map[next_store].products,
                                     cfg.max_products_per_seller)])
            /\ seller_count' = seller_count + 1
            /\ next_store' = next_store + 1
            /\ sf_pc' = "sellers"
    /\ UNCHANGED <<page, results, previews, next_preview, sellers_map, processed_products>>

----------------------------------------------------------------------------
(* exponential_backoff_retry, utils.py 43-72, and the navigation loops run
   attempt by attempt *)

MaxRetries == 4

Invocations == {1, 2}

FuncOutcomes == {"ok", "error", "antibot"}

\* utils.py 49 and 61: both RuntimeError-like errors and AntiBotDetected are
\* instances of Exception, the default of `exceptions`
Retried(exc) == exc \in {"error", "antibot"}

\* whatever last_exc holds is raised
AfterLoopRaise(last_exc) == "raised"

\* utils.py 67-68: after the loop
AfterLoop(last_exc) == IF last_exc = "none" THEN "assert_failed" ELSE "raised"

\* the last failed attempt is not followed by a sleep
AfterFailureButLast(attempt, retries) ==
    IF attempt = retries - 1 THEN "raised" ELSE "sleep"

\* utils.py 61-65: the except clause sleeps, whatever the attempt
AfterFailure(attempt, retries) == "sleep"

\* utils.py 58-60: the loop is entered for the next attempt and func is
\* awaited; with nothing left in range(retries) the code after the loop runs
WrapperCall(w) ==
    /\ r_kind = "wrapper"
    /\ r_pc[w] = "call"
    /\ UNCHANGED <<runVars, sfVars, fnVars>>
    /\ IF r_attempt[w] >= r_retries
       THEN /\ r_pc' = [r_pc EXCEPT ![w] = AfterLoop(r_last_exc[w])]
            /\ UNCHANGED <<r_calls, r_last_exc, r_sleeps>>
       ELSE \E out \in FuncOutcomes :
            /\ r_calls' = [r_calls EXCEPT ![w] = Append(@, out)]
            /\ IF Retried(out)
               THEN /\ r_last_exc' = [r_last_exc EXCEPT ![w] = out]
                    /\ r_sleeps' = [r_sleeps EXCEPT ![w] =
                                      IF AfterFailure(r_attempt[w], r_retries) = "sleep"
                                      THEN @ + 1 ELSE @]
                    /\ r_pc' = [r_pc EXCEPT ![w] = AfterFailure(r_attempt[w], r_retries)]
               ELSE /\ r_pc' = [r_pc EXCEPT ![w] = "returned"]
                    /\ UNCHANGED <<r_last_exc, r_sleeps>>
    /\ UNCHANGED <<r_kind, r_retries, r_attempt, r_delay>>

\* the delay is one variable that all invocations share
GrowShared(delay, w) == [v \in DOMAIN delay |-> delay[v] * 2]

\* utils.py 56 and 66: delay is a local of the call of wrapper;
\* delay *= factor, with factor = 2.0
Grow(delay, w) == [delay EXCEPT ![w] = @ * 2]

\* utils.py 65-68: the sleep ends, the delay grows, and the loop goes on or
\* the last exception is raised
WrapperSleep(w) ==
    /\ r_kind = "wrapper"
    /\ r_pc[w] = "sleep"
    /\ UNCHANGED <<runVars, sfVars, fnVars>>
    /\ r_delay' = Grow(r_delay, w)
    /\ r_attempt' = [r_attempt EXCEPT ![w] = @ + 1]
    /\ r_pc' = [r_pc EXCEPT ![w] =
                  IF r_attempt[w] + 1 < r_retries THEN "call" ELSE AfterLoop(r_last_exc[w])]
    /\ UNCHANGED <<r_kind, r_retries, r_last_exc, r_calls, r_sleeps>>

\* product.py 17-24: one page.goto of the navigation loop
GotoCall(w) ==
    /\ r_kind = "nav"
    /\ r_pc[w] = "call"
    /\ UNCHANGED <<runVars, sfVars, fnVars>>
    /\ \E out \in GotoOutcomes :
         LET step == NavStep(r_attempt[w], out, r_retries) IN
         /\ r_calls' = [r_calls EXCEPT ![w] = Append(@, out)]
         /\ r_pc' = [r_pc EXCEPT ![w] =
                       CASE step = "break" -> "returned"
                         [] step = "raise" -> "raised"
                         [] step = "sleep" -> "sleep"]
         /\ r_last_exc' = [r_last_exc EXCEPT ![w] = IF out = "ok" THEN @ ELSE out]
         /\ r_sleeps' = [r_sleeps EXCEPT ![w] = IF step = "sleep" THEN @ + 1 ELSE @]
    /\ UNCHANGED <<r_kind, r_retries, r_attempt, r_delay>>

\* product.py 25-26: the sleep ends and the delay grows by 1.8
GotoSleep(w) ==
    /\ r_kind = "nav"
    /\ r_pc[w] = "sleep"
    /\ UNCHANGED <<runVars, sfVars, fnVars>>
    /\ r_delay' = [r_delay EXCEPT ![w] = (@ * 18) \div 10]
    /\ r_attempt' = [r_attempt EXCEPT ![w] = @ + 1]
    /\ r_pc' = [r_pc EXCEPT ![w] = "call"]
    /\ UNCHANGED <<r_kind, r_retries, r_last_exc, r_calls, r_sleeps>>

----------------------------------------------------------------------------
(* Calls of the pure functions: parsers.py, seller.py, product.py, server.py *)

MaxIdDigits == 11

\* a run of n digits
IdDigits(n) == [k \in 1..n |-> IF k % 2 = 1 THEN "1" ELSE "0"]

\* URLs given to parse_product_id: a head, "item/" or something close to it,
\* a run of digits, a tail, and possibly a second item segment
Urls ==
    {h \o m \o IdDigits(n) \o t \o s2 :
        h \in {<<>>, <<"/">>, <<"a", "/">>},
        m \in {ItemSlash, <<"i", "t", "m", "/">>, <<"i", "t", "e", "m">>},
        n \in 0..MaxIdDigits,
        t \in {<<>>, <<".", "h">>, <<"?", "9">>},
        s2 \in {<<>>, SlashItemSlash \o IdDigits(MinIdDigits - 1),
                      SlashItemSlash \o IdDigits(MinIdDigits)}}

\* str.upper() on ASCII text, and every other letter in upper case
upper(text) ==
    [k \in 1..Len(text) |->
       IF \E n \in 1..Len(LowerCase) : LowerCase[n] = text[k]
       THEN UpperCase[CHOOSE n \in 1..Len(LowerCase) : LowerCase[n] = text[k]]
       ELSE text[k]]

Alternate(text) == [k \in 1..Len(text) |-> IF k % 2 = 1 THEN upper(text)[k] ELSE text[k]]

\* text without its k-th character
Without(text, k) == SubSeq(text, 1, k - 1) \o SubSeq(text, k + 1, Len(text))

\* page contents given to detect_antibot: an indicator in lower, upper or
\* mixed case, alone or inside other text; an indicator with one character
\* missing; text without any indicator
Htmls ==
    {pre \o w \o post :
        pre \in {<<>>, <<"<", "p", ">", "P", "l", "e", "a", "s", "e", " ">>},
        post \in {<<>>, <<"<", "/", "p", ">">>},
        w \in UNION {{indicators[n], upper(indicators[n]), Alternate(indicators[n])} :
                       n \in 1..Len(indicators)}}
    \cup UNION {UNION {{Without(indicators[n], k), upper(Without(indicators[n], k))} :
                          k \in 1..Len(indicators[n])} : n \in 1..Len(indicators)}
    \cup {<<>>, <<"<", "p", ">", "P", "l", "e", "a", "s", "e", " ">>, <<"W", "i", "r", "e", "l", "e", "s", "s", " ", "E", "a", "r", "b", "u", "d", "s">>}

MaxRatingTexts == 2

\* texts a rating element can hold: a number, or none, and what follows it
RatingTexts ==
    {num \o suffix :
        num \in {<<"0">>,
                 <<"4", ".", "8">>,
                 <<"5">>,
                 <<"5", ".", "1">>,
                 <<"9", "5", ".", "5">>,
                 <<"1", "0", "0">>,
                 <<"1", "0", "0", ".", "5">>,
                 <<"4", ",", "8">>,
                 <<"4", ".", "8", ".", "1">>,
                 <<>>},
        suffix \in {<<>>, <<"%">>, <<"/", "5">>, <<" ", "s", "t", "a", "r", "s">>, <<" ", "(", "1", "2", ")">>}}

MaxProducts == 2

\* price texts the extractors produce: product.py 35-40 and
\* scrapfly_adapter.py 168-240
Prices == {None} \cup {Some(t) : t \in {<<>>,
                                  <<"1", "2", ".", "3", "0">>,
                                  <<"$", "1", "2", ".", "3", "0">>,
                                  <<"A", "U", " ", "$", "1", "2", ".", "3", "0">>,
                                  <<"1", ",", "2", "3", "4", ".", "5", "0">>}}

\* texts the XPath of scrapfly_adapter.py 684 selects: they hold a "."
SfRatingTexts ==
    {num \o suffix :
        num \in {<<"4", ".", "8">>, <<"9", "5", ".", "5">>, <<"1", "0", "0", ".", "5">>},
        suffix \in {<<>>, <<"%">>, <<"/", "5">>}}

\* HTTP status codes of a response
StatusCodes == {200, 403}

FnInputs(name) ==
    CASE name = "parse_product_id" -> Urls
      [] name = "detect_antibot" -> Htmls
      [] name \in {"float_sel", "first_number"} -> {None} \cup {Some(t) : t \in RatingTexts}
      [] name = "seller_rating_sf" -> UNION {[1..n -> SfRatingTexts] : n \in 0..MaxRatingTexts}
      [] name = "scrape_product" -> [url : ProductHrefs, html : Htmls]
      [] name = "scrape_product_and_store_sf" ->
            [url : ProductHrefs, status_code : StatusCodes, content : Htmls]
      [] name = "clean" -> UNION {[1..n -> [price : Prices]] : n \in 0..MaxProducts}

FnNames == {"parse_product_id", "detect_antibot", "float_sel", "first_number",
            "seller_rating_sf", "clean", "scrape_product",
            "scrape_product_and_store_sf"}

\* parsers.py 16-19
CallParseProductId ==
    /\ f_name = "parse_product_id"
    /\ f_pc = "call"
    /\ UNCHANGED <<runVars, sfVars, retryVars>>
    /\ f_ret' = Some(parse_product_id(f_arg))
    /\ f_pc' = "returned"
    /\ UNCHANGED <<f_name, f_arg>>

\* parsers.py 30-39
CallDetectAntibot ==
    /\ f_name = "detect_antibot"
    /\ f_pc = "call"
    /\ UNCHANGED <<runVars, sfVars, retryVars>>
    /\ f_ret' = Some(detect_antibot(f_arg))
    /\ f_pc' = "returned"
    /\ UNCHANGED <<f_name, f_arg>>

\* seller.py 31: rating = await _float_sel(...)
CallFloatSel ==
    /\ f_name = "float_sel"
    /\ f_pc = "call"
    /\ UNCHANGED <<runVars, sfVars, retryVars>>
    /\ f_ret' = Some(float_sel(f_arg))
    /\ f_pc' = "returned"
    /\ UNCHANGED <<f_name, f_arg>>

\* product.py 44: rating = await _first_number(...)
CallFirstNumber ==
    /\ f_name = "first_number"
    /\ f_pc = "call"
    /\ UNCHANGED <<runVars, sfVars, retryVars>>
    /\ f_ret' = Some(first_number(f_arg))
    /\ f_pc' = "returned"
    /\ UNCHANGED <<f_name, f_arg>>

\* scrapfly_adapter.py 679-697 and 729
CallSellerRatingSf ==
    /\ f_name = "seller_rating_sf"
    /\ f_pc = "call"
    /\ UNCHANGED <<runVars, sfVars, retryVars>>
    /\ f_ret' = Some(seller_rating_sf(f_arg))
    /\ f_pc' = "returned"
    /\ UNCHANGED <<f_name, f_arg>>

\* server.py 140-224 with self._client None: the else branch of 212-213,
\* _ensure_urls_preserved, which changes no product that has its URL, and
\* the return; there is no except clause, so a ValueError leaves clean
CallClean ==
    /\ f_name = "clean"
    /\ f_pc = "call"
    /\ UNCHANGED <<runVars, sfVars, retryVars>>
    /\ LET cleaned == local_fallback_clean(f_arg) IN
        IF cleaned = None
        THEN /\ f_pc' = "raised"
             /\ UNCHANGED f_ret
        ELSE /\ f_pc' = "returned"
             /\ f_ret' = cleaned
    /\ UNCHANGED <<f_name, f_arg>>

\* product.py 27-65: scrape_product past its navigation loop
CallScrapeProduct ==
    /\ f_name = "scrape_product"
    /\ f_pc = "call"
    /\ UNCHANGED <<runVars, sfVars, retryVars>>
    /\ LET prod == product_of_page(f_arg.url, f_arg.html) IN
        IF prod = None
        THEN /\ f_pc' = "raised"
             /\ UNCHANGED f_ret
        ELSE /\ f_pc' = "returned"
             /\ f_ret' = prod
    /\ UNCHANGED <<f_name, f_arg>>

\* scrapfly_adapter.py 117-372: scrape_product_and_store_sf past async_scrape
CallScrapeProductAndStoreSf ==
    /\ f_name = "scrape_product_and_store_sf"
    /\ f_pc = "call"
    /\ UNCHANGED <<runVars, sfVars, retryVars>>
    /\ f_ret' = Some(product_of_response_sf(f_arg.url, f_arg.status_code, f_arg.content))
    /\ f_pc' = "returned"
    /\ UNCHANGED <<f_name, f_arg>>

----------------------------------------------------------------------------
(* Initial states and specifications *)

Configs ==
    [concurrency : 1..MaxConcurrency,
     max_suppliers : 1..MaxSuppliers,
     max_products_per_seller : 1..MaxProductsPerSeller,
     limit : 1..MaxLimit,
     abort_on_antibot : BOOLEAN]

\* cli.py 49-57 and 70-77: the command line sets the quotas and the limit,
\* the other fields keep the defaults of config.py 49 and 54
CliConfigs ==
    [concurrency : {3},
     max_suppliers : 1..MaxSuppliers,
     max_products_per_seller : 1..MaxProductsPerSeller,
     limit : 1..MaxLimit,
     abort_on_antibot : {FALSE}]

\* main.py 26-30 and 47-49, search.py 32-37
RunStart ==
    /\ pc = "while"
    /\ sellers = <<>>
    /\ seen_sellers = {}
    /\ processed = 0
    /\ page_num = 1
    /\ scanned = <<>>
    /\ sellers_info = <<>>
    /\ sem = cfg.concurrency
    /\ seller_task = <<>>
    /\ product_task = <<>>
    /\ result = <<>>
    /\ run_exc = NoExc
    /\ warnings = {}
    /\ overtook = {}

RunIdle ==
    /\ pc = "idle"
    /\ sellers = <<>>
    /\ seen_sellers = {}
    /\ processed = 0
    /\ page_num = 1
    /\ scanned = <<>>
    /\ sellers_info = <<>>
    /\ sem = cfg.concurrency
    /\ seller_task = <<>>
    /\ product_task = <<>>
    /\ result = <<>>
    /\ run_exc = NoExc
    /\ warnings = {}
    /\ overtook = {}

\* scrapfly_adapter.py 832-848
SfStart ==
    /\ sf_pc = "search"
    /\ page = 1
    /\ results = <<>>
    /\ previews = <<>>
    /\ next_preview = 1
    /\ sellers_map = <<>>
    /\ processed_products = 0
    /\ next_store = 1
    /\ seller_count = 0
    /\ sf_result = <<>>

SfIdle ==
    /\ sf_pc = "idle"
    /\ page = 1
    /\ results = <<>>
    /\ previews = <<>>
    /\ next_preview = 1
    /\ sellers_map = <<>>
    /\ processed_products = 0
    /\ next_store = 1
    /\ seller_count = 0
    /\ sf_result = <<>>

\* utils.py 45-46 and 56-57 (delay = base = 1.0 s); product.py 16 (0.8 s)
RetryStart ==
    /\ \/ r_kind = "wrapper" /\ r_retries \in 0..MaxRetries
       \/ r_kind = "nav" /\ r_retries = NavRetries
    /\ r_pc = [w \in Invocations |-> "call"]
    /\ r_attempt = [w \in Invocations |-> 0]
    /\ r_delay = [w \in Invocations |-> IF r_kind = "wrapper" THEN 1000 ELSE 800]
    /\ r_last_exc = [w \in Invocations |-> "none"]
    /\ r_calls = [w \in Invocations |-> <<>>]
    /\ r_sleeps = [w \in Invocations |-> 0]

RetryIdle ==
    /\ r_kind = "idle"
    /\ r_retries = NavRetries
    /\ r_pc = [w \in Invocations |-> "idle"]
    /\ r_attempt = [w \in Invocations |-> 0]
    /\ r_delay = [w \in Invocations |-> 0]
    /\ r_last_exc = [w \in Invocations |-> "none"]
    /\ r_calls = [w \in Invocations |-> <<>>]
    /\ r_sleeps = [w \in Invocations |-> 0]

FnStart ==
    /\ f_name \in FnNames
    /\ f_arg \in FnInputs(f_name)
    /\ f_pc = "call"
    /\ f_ret = None

FnIdle ==
    /\ f_name = "idle"
    /\ f_arg = <<>>
    /\ f_pc = "idle"
    /\ f_ret = None

InitRun == cfg \in Configs /\ RunStart /\ SfIdle /\ RetryIdle /\ FnIdle

InitSf == cfg \in CliConfigs /\ RunIdle /\ SfStart /\ RetryIdle /\ FnIdle

InitRetry == cfg \in CliConfigs /\ cfg.limit = 1 /\ cfg.max_suppliers = 1
             /\ cfg.max_products_per_seller = 1 /\ RunIdle /\ SfIdle /\ RetryStart
             /\ FnIdle

InitFn == cfg \in CliConfigs /\ cfg.limit = 1 /\ cfg.max_suppliers = 1
          /\ cfg.max_products_per_seller = 1 /\ RunIdle /\ SfIdle /\ RetryIdle
          /\ FnStart

Init == InitRun \/ InitSf \/ InitRetry \/ InitFn

NextRun ==
    \/ DiscoverWhile
    \/ DiscoverGoto
    \/ DiscoverItem
    \/ DiscoverEndPage
    \/ StartGather
    \/ \E i \in SellerIds : AcquireSeller(i)
    \/ \E i \in SellerIds : FinishSeller(i)
    \/ \E i \in SellerIds : \E j \in ProductIds(i) : AcquireProduct(i, j)
    \/ \E i \in SellerIds : \E j \in ProductIds(i) : FinishProduct(i, j)
    \/ \E i \in SellerIds : AggregateSeller(i)
    \/ RunReturn

NextSf ==
    \/ SfSearchFirst
    \/ SfSearchNext
    \/ SfProduct
    \/ SfSeller

NextRetry ==
    \/ \E w \in Invocations : WrapperCall(w)
    \/ \E w \in Invocations : WrapperSleep(w)
    \/ \E w \in Invocations : GotoCall(w)
    \/ \E w \in Invocations : GotoSleep(w)

NextFn ==
    \/ CallParseProductId
    \/ CallDetectAntibot
    \/ CallFloatSel
    \/ CallFirstNumber
    \/ CallSellerRatingSf
    \/ CallClean
    \/ CallScrapeProduct
    \/ CallScrapeProductAndStoreSf

Next == NextRun \/ NextSf \/ NextRetry \/ NextFn

vars == <<runVars, sfVars, retryVars, fnVars>>

Spec == Init /\ [][Next]_vars

SpecRun == InitRun /\ [][NextRun]_vars

SpecSf == InitSf /\ [][NextSf]_vars

SpecRetry == InitRetry /\ [][NextRetry]_vars

SpecFn == InitFn /\ [][NextFn]_vars

\* the configurations with the largest quotas and two search items, enough
\* for two sellers or for two products of one seller, under every concurrency
FairConfigs ==
    {c \in Configs : /\ c.max_suppliers = MaxSuppliers
                     /\ c.max_products_per_seller = MaxProductsPerSeller
                     /\ c.limit = 2}

InitRunFair == cfg \in FairConfigs /\ RunStart /\ SfIdle /\ RetryIdle /\ FnIdle

\* Scraper.run with the page loop of discover_sellers followed past
\* MaxPageNum
NextRunFair == NextRun \/ DiscoverWhileBeyond

\* Scraper.run when every fetch and every sleep ends and the event loop runs
\* every task that can go on
SpecRunFair == InitRunFair /\ [][NextRunFair]_vars /\ WF_vars(NextRunFair)

----------------------------------------------------------------------------
(* Properties *)

\* u without its query string, stated on its own: c has no "?" and u is c,
\* or c followed by "?" and anything
QueryFree(c) == \A n \in 1..Len(c) : c[n] # "?"

IsCanonicalOf(c, u) ==
    /\ QueryFree(c)
    /\ Len(c) <= Len(u)
    /\ SubSeq(u, 1, Len(c)) = c
    /\ Len(u) > Len(c) => u[Len(c) + 1] = "?"

SameStore(u, v) ==
    \E n \in 0..Len(u) : IsCanonicalOf(SubSeq(u, 1, n), u) /\ IsCanonicalOf(SubSeq(u, 1, n), v)

\* the seller and product tasks inside scrape_seller or scrape_product
TasksAt(where) ==
    {<<i, 0>> : i \in {k \in SellerIds : seller_task[k] = where}}
    \cup UNION {{<<i, j>> : j \in {m \in ProductIds(i) : product_task[i][m] = where}} :
                 i \in SellerIds}

FetchingTasks == TasksAt("fetching")

\* the tasks that have not got their permit yet
WaitingTasks == TasksAt("start")

\* C1: in Scraper.run the number of seller-page and product-page fetches in
\* flight never exceeds cfg.concurrency
C1_InFlightBounded == Cardinality(FetchingTasks) <= cfg.concurrency

\* C1 witness: every permit is taken, by a seller fetch and by a product
\* fetch, while another task waits for one
C1_Witness ==
    /\ Cardinality(FetchingTasks) = cfg.concurrency
    /\ \E t \in FetchingTasks : t[2] = 0
    /\ \E t \in FetchingTasks : t[2] > 0
    /\ WaitingTasks # {}

WithinQuotas(suppliers) ==
    /\ Len(suppliers) <= cfg.max_suppliers
    /\ \A k \in 1..Len(suppliers) : Len(suppliers[k].products) <= cfg.max_products_per_seller

\* C2: the result of a completed run, of Scraper.run and of
\* run_with_scrapfly, has at most max_suppliers sellers and every seller at
\* most max_products_per_seller products
C2_QuotasRespected ==
    /\ pc = "returned" => WithinQuotas(result)
    /\ sf_pc = "returned" => WithinQuotas(sf_result)

\* C2 witness: a completed run that filled both quotas and left out a
\* product URL that discovery had found
C2_Witness ==
    /\ pc = "returned"
    /\ Len(result) = cfg.max_suppliers
    /\ \E k \in 1..Len(result) : Len(result[k].products) = cfg.max_products_per_seller
    /\ \E i \in SellerIds : Len(sellers_info[i].product_urls) > cfg.max_products_per_seller

\* the product URLs of a list of products
UrlsIn(products) == {products[n].product_url : n \in 1..Len(products)}

\* the entries of the result for seller task i
EntriesOf(i) == {k \in 1..Len(result) : result[k].seller_url = sellers_info[i].seller_url}

\* C3: a product fetch that fails with a transport error never makes
\* Scraper.run raise; in the returned result the failed product is absent
\* from its seller, and every seller whose page was fetched is there with
\* every product whose fetch succeeded
C3_ProductFailureContained ==
    /\ pc = "raised" =>
         \/ run_exc.by = 0
         \/ seller_task[run_exc.by] \in {"raised_transport", "raised_antibot"}
    /\ pc = "returned" =>
         \A i \in SellerIds :
            seller_task[i] = "done" =>
               /\ Cardinality(EntriesOf(i)) = 1
               /\ \A k \in EntriesOf(i) : \A j \in ProductIds(i) :
                     LET prod == sellers_info[i].product_urls[j] IN
                     /\ product_task[i][j] = "ok" => prod \in UrlsIn(result[k].products)
                     /\ product_task[i][j] = "transport" => prod \notin UrlsIn(result[k].products)

\* C3 witness: the run returned with two sellers, one of which lost a
\* product to a transport error and kept the other product
C3_Witness ==
    /\ pc = "returned"
    /\ Len(result) = 2
    /\ \E i \in SellerIds : \E j1, j2 \in ProductIds(i) :
          /\ product_task[i][j1] = "transport"
          /\ product_task[i][j2] = "ok"
          /\ \E k \in EntriesOf(i) : Len(result[k].products) = 1

\* C4: a seller-page fetch that fails with a transport error on every
\* attempt never makes Scraper.run raise
C4_SellerFailureCaught ==
    \A i \in SellerIds :
       seller_task[i] = "raised_transport" => ~(pc = "raised" /\ run_exc.by = i)

\* C5: with abort_on_antibot set, Scraper.run never returns a result when an
\* anti-bot page was met on the search page, a seller page or a product page
C5_AbortOnAnyAntibot ==
    (cfg.abort_on_antibot /\ pc = "returned") =>
        /\ <<"search", 0, 0>> \notin warnings
        /\ \A i \in SellerIds :
              /\ seller_task[i] \notin {"skipped", "raised_antibot"}
              /\ \A j \in ProductIds(i) : product_task[i][j] # "antibot"

\* C6: without abort_on_antibot an anti-bot page never makes Scraper.run
\* raise; a blocked seller is left out, a blocked product is left out of its
\* seller, which keeps its other products, and a blocked search page gives
\* an empty result without any seller or product task
C6_AntibotSkipsUnit ==
    ~cfg.abort_on_antibot =>
        /\ run_exc.kind # "antibot"
        /\ \A i \in SellerIds : seller_task[i] # "raised_antibot"
        /\ <<"search", 0, 0>> \in warnings =>
              /\ pc \in {"discovered", "gather", "returned"}
              /\ SellerIds = {}
              /\ sem = cfg.concurrency
              /\ result = <<>>
        /\ pc = "returned" =>
              \A i \in SellerIds :
                 /\ seller_task[i] = "skipped" => EntriesOf(i) = {}
                 /\ seller_task[i] = "done" =>
                       /\ Cardinality(EntriesOf(i)) = 1
                       /\ \A k \in EntriesOf(i) : \A j \in ProductIds(i) :
                             LET prod == sellers_info[i].product_urls[j] IN
                             /\ product_task[i][j] = "ok" => prod \in UrlsIn(result[k].products)
                             /\ product_task[i][j] = "antibot" => prod \notin UrlsIn(result[k].products)

\* C6 witness: the run returned although one seller page and one product
\* page were blocked; the other seller kept its other product
C6_Witness ==
    /\ ~cfg.abort_on_antibot
    /\ pc = "returned"
    /\ \E i \in SellerIds : seller_task[i] = "skipped"
    /\ \E i \in SellerIds : \E j1, j2 \in ProductIds(i) :
          /\ seller_task[i] = "done"
          /\ product_task[i][j1] = "antibot"
          /\ product_task[i][j2] = "ok"
          /\ \E k \in EntriesOf(i) : Len(result[k].products) = 1

Failed(w) == \A n \in 1..Len(r_calls[w]) : r_calls[w][n] # "ok"

\* C7: with retries >= 1 a retry loop never calls the operation more than
\* `retries` times; it raises the operation's error only after exactly
\* `retries` failed calls, and it returns right after the first call that
\* succeeds, so after exactly 3 calls when the first two failed
C7_RetryAttempts ==
    r_retries >= 1 =>
      \A w \in Invocations :
        /\ Len(r_calls[w]) <= r_retries
        /\ r_pc[w] # "assert_failed"
        /\ r_pc[w] = "raised" =>
              /\ Len(r_calls[w]) = r_retries
              /\ Failed(w)
              /\ r_last_exc[w] = r_calls[w][r_retries]
        /\ r_pc[w] = "returned" =>
              /\ r_calls[w][Len(r_calls[w])] = "ok"
              /\ \A n \in 1..(Len(r_calls[w]) - 1) : r_calls[w][n] # "ok"
        /\ (Len(r_calls[w]) >= 1 /\ r_calls[w][Len(r_calls[w])] = "ok") => r_pc[w] = "returned"
        /\ (Failed(w) /\ Len(r_calls[w]) < r_retries) => r_pc[w] \in {"call", "sleep"}
        /\ (Len(r_calls[w]) >= 3 /\ r_calls[w][1] # "ok" /\ r_calls[w][2] # "ok"
              /\ r_calls[w][3] = "ok") => (r_pc[w] = "returned" /\ Len(r_calls[w]) = 3)

\* C7 witness: one invocation of a navigation loop returned at its third
\* call after two failures, the other raised after its third failure
C7_Witness ==
    /\ r_kind = "nav"
    /\ r_pc[1] = "returned"
    /\ r_calls[1] = <<"pwerror", "pwerror", "ok">>
    /\ r_pc[2] = "raised"
    /\ r_calls[2] = <<"pwerror", "pwerror", "pwerror">>

\* the items of `its` that carry a store link of the store c
ItemsOf(its, c) == SelectSeq(its, LAMBDA it : IsCanonicalOf(c, it.seller))

\* the index of the first item of the store c
FirstSeen(its, c) == CHOOSE n \in 1..Len(its) :
    /\ IsCanonicalOf(c, its[n].seller)
    /\ \A m \in 1..(n - 1) : ~IsCanonicalOf(c, its[m].seller)

\* ss lists, for the items `its`, one entry per store in the order the
\* stores were first seen, each with the product links of its items in the
\* order they were first seen, none twice
GroupsItems(ss, its) ==
    /\ \A n \in 1..Len(its) : \E k \in 1..Len(ss) : IsCanonicalOf(ss[k].seller_url, its[n].seller)
    /\ \A k \in 1..Len(ss) :
          /\ \E n \in 1..Len(its) : IsCanonicalOf(ss[k].seller_url, its[n].seller)
          /\ \A l \in 1..Len(ss) : l # k => ss[l].seller_url # ss[k].seller_url
          /\ \A l \in 1..Len(ss) :
                l < k => FirstSeen(its, ss[l].seller_url) < FirstSeen(its, ss[k].seller_url)
          /\ LET urls == ss[k].product_urls
                 mine == ItemsOf(its, ss[k].seller_url) IN
             /\ Range(urls) = {mine[n].href : n \in 1..Len(mine)}
             /\ \A a, b \in 1..Len(urls) : a # b => urls[a] # urls[b]
             /\ \A a, b \in 1..Len(urls) :
                   a < b => \E n \in 1..Len(mine) :
                              /\ mine[n].href = urls[a]
                              /\ \A m \in 1..n : mine[m].href # urls[b]

OnePerStore(suppliers) ==
    \A k, l \in 1..Len(suppliers) :
       k # l => ~SameStore(suppliers[k].seller_url, suppliers[l].seller_url)

\* C9: in the result of a run, of Scraper.run and of run_with_scrapfly, no
\* two sellers have the same canonical store URL
C9_OneSellerPerStore ==
    /\ pc = "returned" => OnePerStore(result)
    /\ sf_pc = "returned" => OnePerStore(sf_result)

\* C10: search discovery fetches at most 3 search-result pages, in
\* discover_sellers and in search_products_sf
C10_PageCap ==
    /\ pc = "items" => page_num <= 3
    /\ sf_pc \in {"search_loop", "products", "sellers", "returned"} => page - 1 <= 3

\* the position of url in the list of product URLs discovery gave for seller i
PositionOf(i, url) ==
    CHOOSE j \in 1..Len(sellers_info[i].product_urls) : sellers_info[i].product_urls[j] = url

\* C11: in the result of Scraper.run the products of a seller are those of
\* the first max_products_per_seller product URLs of the seller whose fetch
\* succeeded, in the order of that list, whatever order the product tasks
\* ended in
C11_ProductsInSubmissionOrder ==
    \A i \in SellerIds :
       seller_task[i] = "done" =>
          \A k \in EntriesOf(i) :
             LET prods == result[k].products IN
             /\ \A n \in 1..Len(prods) :
                   /\ prods[n].product_url \in Range(sellers_info[i].product_urls)
                   /\ PositionOf(i, prods[n].product_url) <= cfg.max_products_per_seller
                   /\ product_task[i][PositionOf(i, prods[n].product_url)] = "ok"
             /\ \A n, m \in 1..Len(prods) :
                   n < m => PositionOf(i, prods[n].product_url) < PositionOf(i, prods[m].product_url)
             /\ \A j \in ProductIds(i) :
                   product_task[i][j] = "ok" =>
                      \E n \in 1..Len(prods) : prods[n].product_url = sellers_info[i].product_urls[j]

\* C11 witness: the run returned a seller with two products in the order of
\* their URLs although the task of the second ended before that of the first
C11_Witness ==
    /\ pc = "returned"
    /\ \E i \in SellerIds : \E k \in EntriesOf(i) :
          /\ <<i, 2>> \in overtook
          /\ Len(result[k].products) = 2
          /\ result[k].products[1].product_url = sellers_info[i].product_urls[1]
          /\ result[k].products[2].product_url = sellers_info[i].product_urls[2]

\* the store of a store link: the link without its query string
StoreOf(u) == CHOOSE c \in {SubSeq(u, 1, n) : n \in 0..Len(u)} : IsCanonicalOf(c, u)

\* pairs is a set of <<store, product URL>>: it has at least max_suppliers
\* stores, each with at least max_products_per_seller product URLs
Enough(pairs) ==
    LET stores == {p[1] : p \in pairs} IN
    /\ Cardinality(stores) >= cfg.max_suppliers
    /\ \A st \in stores :
          Cardinality({p[2] : p \in {q \in pairs : q[1] = st}}) >= cfg.max_products_per_seller

FullQuotas(suppliers) ==
    /\ Len(suppliers) = cfg.max_suppliers
    /\ \A k \in 1..Len(suppliers) : Len(suppliers[k].products) = cfg.max_products_per_seller

ItemPairs(its) == {<<StoreOf(its[n].seller), its[n].href>> : n \in 1..Len(its)}

\* the items the search results can go on with, up to n of them
MoreItems(n) ==
    UNION {[1..m -> {it \in Items : it.href # NoUrl /\ it.seller # NoUrl}] : m \in 0..n}

\* the pairs of the previews of run_with_scrapfly, those not fetched having
\* the store links `rest` gives them
PreviewPairs(rest) ==
    UNION {{<<StoreOf(sellers_map[k].store_url), sellers_map[k].products[n].product_url>> :
              n \in 1..Len(sellers_map[k].products)} : k \in 1..Len(sellers_map)}
    \cup {<<StoreOf(StoreUrl(rest[n])), previews[n]>> : n \in DOMAIN rest}

\* C12: when the first `limit` search results hold at least max_suppliers
\* stores, each with at least max_products_per_seller product URLs, and
\* every fetch succeeds, the result has exactly max_suppliers sellers with
\* exactly max_products_per_seller products each. For Scraper.run: discovery
\* then returns max_suppliers sellers with enough product URLs each, and a
\* run in which every task succeeded fills both quotas from them; for
\* run_with_scrapfly: the returned result fills both quotas. The search
\* results a run did not read are any that the site could have listed.
C12_FullQuotasOnSuccess ==
    /\ (/\ pc = "discovered"
        /\ <<"search", 0, 0>> \notin warnings
        /\ \E more \in MoreItems(cfg.limit - processed) : Enough(ItemPairs(scanned \o more)))
       => /\ Len(sellers_info) = cfg.max_suppliers
          /\ \A k \in 1..Len(sellers_info) :
                Len(sellers_info[k].product_urls) >= cfg.max_products_per_seller
    /\ (/\ pc = "returned"
        /\ Len(sellers_info) = cfg.max_suppliers
        /\ \A i \in SellerIds :
              /\ Len(sellers_info[i].product_urls) >= cfg.max_products_per_seller
              /\ seller_task[i] = "done"
              /\ \A j \in ProductIds(i) : product_task[i][j] = "ok")
       => FullQuotas(result)
    /\ (/\ sf_pc = "returned"
        /\ processed_products = next_preview - 1
        /\ \E rest \in [next_preview..Len(previews) -> StoreLinks] : Enough(PreviewPairs(rest)))
       => FullQuotas(sf_result)

\* id is the whole run of at least 10 digits that follows an "item/" of url
IsItemIdOf(id, url) ==
    /\ Len(id) >= 10
    /\ \A n \in 1..Len(id) : id[n] \in Digits
    /\ \E s \in 1..Len(url) :
          /\ s + 4 + Len(id) <= Len(url)
          /\ SubSeq(url, s, s + 4) = ItemSlash
          /\ SubSeq(url, s + 5, s + 4 + Len(id)) = id
          /\ s + 5 + Len(id) <= Len(url) => url[s + 5 + Len(id)] \notin Digits

HasItemId(url) == \E a, b \in 1..Len(url) : IsItemIdOf(SubSeq(url, a, b), url)

HaveItemIds(suppliers) ==
    \A k \in 1..Len(suppliers) : \A n \in 1..Len(suppliers[k].products) :
       IsItemIdOf(suppliers[k].products[n].product_id, suppliers[k].products[n].product_url)

\* C13: every product of a returned result, of Scraper.run and of
\* run_with_scrapfly, has as product_id the run of at least 10 digits that
\* follows "item/" in its URL; a product whose URL has no such run is not
\* in the result
C13_ProductIdsValid ==
    /\ pc = "returned" => HaveItemIds(result)
    /\ sf_pc = "returned" => HaveItemIds(sf_result)

\* C14: parse_product_id returns the whole digit run of an "item/" segment
\* with at least 10 digits when the URL has one, and None when it has none
C14_ParseProductId ==
    (f_name = "parse_product_id" /\ f_pc = "returned") =>
        IF HasItemId(f_arg)
        THEN f_ret[1] # None /\ IsItemIdOf(f_ret[1][1], f_arg)
        ELSE f_ret[1] = None

\* C14 witness: the id returned has more than 10 digits and comes from a URL
\* that has something before "item/" and goes on after the id
C14_Witness ==
    /\ f_name = "parse_product_id"
    /\ f_pc = "returned"
    /\ f_ret[1] # None
    /\ Len(f_ret[1][1]) > 10
    /\ SubSeq(f_arg, 1, 5) # ItemSlash
    /\ f_arg[Len(f_arg)] \notin Digits

\* a and b are the same character or the two cases of one letter
SameLetter(a, b) ==
    \/ a = b
    \/ \E n \in 1..26 : {a, b} = {LowerCase[n], UpperCase[n]}

\* text contains ind, in any letter-case
ContainsAnyCase(text, ind) ==
    \E s \in 0..(Len(text) - Len(ind)) :
       \A k \in 1..Len(ind) : SameLetter(text[s + k], ind[k])

\* C15: detect_antibot returns true exactly for the contents that contain
\* one of the five indicator strings, in any letter-case
C15_DetectAntibot ==
    (f_name = "detect_antibot" /\ f_pc = "returned") =>
        (f_ret[1] <=> \E n \in 1..Len(indicators) : ContainsAnyCase(f_arg, indicators[n]))

\* C15 witness: the content has the indicator "verify you are human" in
\* mixed case inside other text, and true is returned
C15_Witness ==
    /\ f_name = "detect_antibot"
    /\ f_pc = "returned"
    /\ f_ret[1]
    /\ ContainsAnyCase(f_arg, indicators[2])
    /\ ~Contains(f_arg, indicators[2])
    /\ ~Contains(f_arg, upper(indicators[2]))
    /\ Len(f_arg) > Len(indicators[2])

\* the calls of invocation w that raised
Fails(w) == Cardinality({n \in 1..Len(r_calls[w]) : r_calls[w][n] # "ok"})

RECURSIVE Pow2(_)
Pow2(n) == IF n = 0 THEN 1 ELSE 2 * Pow2(n - 1)

\* C16: two interleaved invocations of a function wrapped by
\* exponential_backoff_retry share no retry state: the attempt counter, the
\* delay, the last exception and the outcome of each are those its own
\* calls give, whatever the other invocation did, and each calls the
\* function at most `retries` times
C16_NoSharedRetryState ==
    r_kind = "wrapper" =>
      \A w \in Invocations :
        /\ Len(r_calls[w]) <= r_retries
        /\ r_sleeps[w] = Fails(w)
        /\ r_attempt[w] = IF r_pc[w] = "sleep" THEN Fails(w) - 1 ELSE Fails(w)
        /\ r_delay[w] = 1000 * Pow2(r_attempt[w])
        /\ r_last_exc[w] = IF Fails(w) = 0 THEN "none"
                           ELSE r_calls[w][CHOOSE n \in 1..Len(r_calls[w]) :
                                             /\ r_calls[w][n] # "ok"
                                             /\ \A m \in (n + 1)..Len(r_calls[w]) : r_calls[w][m] = "ok"]
        /\ r_pc[w] \in
              IF Len(r_calls[w]) > 0 /\ r_calls[w][Len(r_calls[w])] = "ok" THEN {"returned"}
              ELSE IF Fails(w) < r_retries THEN {"call", "sleep"}
              ELSE IF r_retries = 0 THEN {"call", "assert_failed"}
              ELSE {"sleep", "raised"}

\* C16 witness: one invocation sleeps after its first failure with the first
\* delay while the other, two failures ahead, is at its third call with the
\* delay doubled twice
C16_Witness ==
    /\ r_kind = "wrapper"
    /\ r_pc[1] = "sleep"
    /\ r_attempt[1] = 0
    /\ r_delay[1] = 1000
    /\ r_pc[2] = "call"
    /\ r_attempt[2] = 2
    /\ r_delay[2] = 4000

\* C17: in Scraper.run a seller whose page was fetched and whose product
\* fetches all failed is in result.suppliers, once, with an empty product list
C17_SellerWithoutProductsKept ==
    \A i \in SellerIds :
       (/\ seller_task[i] = "done"
        /\ ProductIds(i) # {}
        /\ \A j \in ProductIds(i) : product_task[i][j] \in {"transport", "antibot"})
       => /\ Cardinality(EntriesOf(i)) = 1
          /\ \A k \in EntriesOf(i) : result[k].products = <<>>

\* C17 witness: the run returned a seller without products, after one of its
\* two product fetches failed in transport and the other met an anti-bot
\* page, next to a seller that kept a product
C17_Witness ==
    /\ pc = "returned"
    /\ \E i \in SellerIds :
          /\ seller_task[i] = "done"
          /\ Len(product_task[i]) = 2
          /\ product_task[i][1] = "transport"
          /\ product_task[i][2] = "antibot"
          /\ \E k \in EntriesOf(i) : result[k].products = <<>>
    /\ \E k \in 1..Len(result) : result[k].products # <<>>

\* C18: the rating that scrape_seller_sf, seller.py and product.py store is
\* None or a number from 0 to 5
C18_RatingWithinScale ==
    (f_name \in {"float_sel", "first_number", "seller_rating_sf"} /\ f_pc = "returned") =>
        \/ f_ret[1] = None
        \/ (0 <= f_ret[1][1] /\ f_ret[1][1] <= 5 * Scale)

\* C19: without a client, clean returns for every ScrapeResult a structure
\* with the six keys and never raises, whatever the price texts are
C19_FallbackNeverRaises ==
    (f_name = "clean" /\ f_pc # "call") =>
        /\ f_pc = "returned"
        /\ DOMAIN f_ret[1] = {"top_products", "top_sellers", "insights",
                              "market_analysis", "recommendations", "risk_factors"}

\* the search-result page fetch of discover_sellers is in progress
SearchFetching == pc = "goto"

\* C20: every fetch of Scraper.run in progress, the search-result page fetch
\* of discover_sellers included, holds a permit of the semaphore: the permits
\* taken are as many as the fetches in progress
C20_EveryFetchHoldsPermit ==
    cfg.concurrency - sem =
        Cardinality(FetchingTasks) + (IF SearchFetching THEN 1 ELSE 0)

\* C21: an anti-bot detection is never followed by another attempt of the
\* same fetch, in a navigation loop and in a function wrapped by
\* exponential_backoff_retry with its default arguments (retries = 3,
\* exceptions = (Exception,)): a call that ended in AntiBotDetected is the
\* last call of its invocation
C21_AntibotNotRetried ==
    (r_kind = "nav" \/ (r_kind = "wrapper" /\ r_retries = 3)) =>
       \A w \in Invocations : \A n \in 1..Len(r_calls[w]) :
          r_calls[w][n] = "antibot" => n = Len(r_calls[w])

\* C22: no field is extracted from a fetched page that the anti-bot check
\* flags, on the Scraper.run path and on the run_with_scrapfly path: the
\* check comes after the fetch and before the extraction, so a flagged page
\* never yields a product
C22_AntibotCheckBeforeExtraction ==
    /\ (f_name = "scrape_product" /\ f_pc = "returned") => ~detect_antibot(f_arg.html)
    /\ (f_name = "scrape_product_and_store_sf" /\ f_pc = "returned"
          /\ detect_antibot(f_arg.content)) => f_ret[1] = None

\* the seller tasks that complete in this step
Completing ==
    {i \in SellerIds \cap DOMAIN seller_task' :
        seller_task[i] # "done" /\ seller_task'[i] = "done"}

\* a step appends the seller of a completing task, whose seller fetch and
\* product fetches have all ended and which is not in the list yet, at the
\* end of result.suppliers, and nothing else changes the list
AppendsOnCompletion ==
    /\ \A i \in Completing :
          /\ seller_task[i] = "products"
          /\ \A j \in ProductIds(i) : product_task[i][j] \in Settled
          /\ EntriesOf(i) = {}
          /\ Len(result') = Len(result) + 1
          /\ SubSeq(result', 1, Len(result)) = result
          /\ result'[Len(result')].seller_url = sellers_info[i].seller_url
    /\ result' # result => Completing # {}

\* C23: in Scraper.run a seller is appended to result.suppliers exactly once,
\* in the step that completes its seller task, after its seller fetch and
\* all of its product fetches have ended; the list is therefore in the
\* completion order of the seller tasks
C23_AppendedAtCompletion == [][AppendsOnCompletion]_vars

\* C23 witness: the run returned two sellers, the seller discovered second
\* before the seller discovered first, which has a product
C23_Witness ==
    /\ pc = "returned"
    /\ Len(result) = 2
    /\ result[1].seller_url = sellers_info[2].seller_url
    /\ result[2].seller_url = sellers_info[1].seller_url
    /\ result[2].products # <<>>

\* the place of a seller in what discover_sellers returned
DiscoveryIndex(url) == CHOOSE i \in 1..Len(sellers_info) : sellers_info[i].seller_url = url

\* C24: in the result of a run the suppliers are in the order in which
\* discovery found their sellers, for Scraper.run whatever the interleaving
\* of the seller tasks and for run_with_scrapfly
C24_ResultInDiscoveryOrder ==
    /\ pc = "returned" =>
          \A k, l \in 1..Len(result) :
             k < l => DiscoveryIndex(result[k].seller_url) < DiscoveryIndex(result[l].seller_url)
    /\ sf_pc = "returned" =>
          \A k \in 1..Len(sf_result) : sf_result[k].seller_url = sellers_map[k].store_url

\* every seller and product task has ended
AllSettled ==
    /\ pc \in {"gather", "returned", "raised"}
    /\ \A i \in SellerIds :
          /\ seller_task[i] \in {"done", "skipped", "raised_transport", "raised_antibot"}
          /\ \A j \in ProductIds(i) : product_task[i][j] \in Settled

\* C25: in Scraper.run the permits taken are exactly those of the seller and
\* product fetches in progress: a fetch that ended, in a Product or Seller or
\* in an exception, holds none, and once every task has ended all
\* cfg.concurrency permits are free
C25_PermitsReleased ==
    /\ cfg.concurrency - sem = Cardinality(FetchingTasks)
    /\ AllSettled => sem = cfg.concurrency

\* C25 witness: every task has ended, a seller fetch in AntiBotDetected and
\* a product fetch in a transport error, and every permit is free
C25_Witness ==
    /\ AllSettled
    /\ \E i \in SellerIds : seller_task[i] = "skipped"
    /\ \E i \in SellerIds : \E j \in ProductIds(i) : product_task[i][j] = "transport"
    /\ sem = cfg.concurrency

\* Scraper.run has returned or raised and every task has ended
RunOver == pc \in {"returned", "raised"} /\ AllSettled

\* a task that asks for a permit holds none: the product tasks of a seller
\* exist only once the seller fetch has given its permit back
NoHoldAndWait ==
    \A i \in SellerIds :
       seller_task[i] \in {"start", "fetching"} => product_task[i] = <<>>

C27_SiblingsNotCancelled ==
    (cfg.abort_on_antibot /\ pc = "raised" /\ run_exc.kind = "antibot") =>
       \A i \in SellerIds :
          /\ (seller_task[i] = "start" /\ sem > 0) => ENABLED AcquireSeller(i)
          /\ seller_task[i] = "fetching" => ENABLED FinishSeller(i)
          /\ (seller_task[i] = "products" /\ ProductsSettled(i)) => ENABLED AggregateSeller(i)
          /\ \A j \in ProductIds(i) :
                /\ (product_task[i][j] = "start" /\ sem > 0) => ENABLED AcquireProduct(i, j)
                /\ product_task[i][j] = "fetching" => ENABLED FinishProduct(i, j)

\* C27 witness: Scraper.run has raised the AntiBotDetected of one seller task
\* while the result is empty; a sibling seller task has fetched a product
\* after its seller page and is about to append its seller to the result
C27_Witness ==
    /\ cfg.abort_on_antibot
    /\ pc = "raised"
    /\ run_exc.kind = "antibot"
    /\ result = <<>>
    /\ \E i, k \in SellerIds :
          /\ seller_task[i] = "raised_antibot"
          /\ seller_task[k] = "products"
          /\ ProductsSettled(k)
          /\ \E j \in ProductIds(k) : product_task[k][j] = "ok"

\* C28: a function wrapped by exponential_backoff_retry sleeps once after
\* every failed call, the last one included, so it raises after exactly
\* `retries` sleeps, and it never sleeps after a call that succeeded; a
\* navigation loop sleeps only between attempts, at most twice for its three
\* attempts, and raises without a sleep after the last
C28_SleepsPerAttempt ==
    \A w \in Invocations :
       /\ r_kind = "wrapper" =>
             /\ r_sleeps[w] = Fails(w)
             /\ (r_pc[w] = "raised" /\ r_retries >= 1) =>
                   (Failed(w) /\ r_sleeps[w] = r_retries)
             /\ r_pc[w] = "returned" => r_sleeps[w] = Len(r_calls[w]) - 1
             /\ r_pc[w] = "sleep" => r_calls[w][Len(r_calls[w])] # "ok"
       /\ r_kind = "nav" =>
             /\ r_sleeps[w] <= NavRetries - 1
             /\ r_sleeps[w] = IF r_pc[w] = "raised" THEN Fails(w) - 1 ELSE Fails(w)
             /\ r_pc[w] = "raised" => (Fails(w) = NavRetries /\ r_sleeps[w] = 2)
             /\ r_pc[w] = "sleep" => r_calls[w][Len(r_calls[w])] # "ok"

\* C28 witness: with retries = 3 one invocation of the wrapped function
\* raised after three failed calls and three sleeps, the other returned at
\* its second call after one sleep
C28_Witness ==
    /\ r_kind = "wrapper"
    /\ r_retries = 3
    /\ r_pc[1] = "raised"
    /\ r_sleeps[1] = 3
    /\ Len(r_calls[1]) = 3
    /\ r_pc[2] = "returned"
    /\ r_sleeps[2] = 1
    /\ Len(r_calls[2]) = 2

\* C29: with retries = 0 a function wrapped by exponential_backoff_retry is
\* never called and the call ends in the AssertionError of the wrapper,
\* never in an error of the function; with retries >= 1 the call ends only
\* after the function was called at least once, and never in the
\* AssertionError
C29_ZeroRetriesAsserts ==
    r_kind = "wrapper" =>
       \A w \in Invocations :
          /\ r_retries = 0 =>
                /\ r_calls[w] = <<>>
                /\ r_sleeps[w] = 0
                /\ r_pc[w] \in {"call", "assert_failed"}
          /\ r_retries >= 1 =>
                /\ r_pc[w] # "assert_failed"
                /\ r_pc[w] \in {"returned", "raised"} => Len(r_calls[w]) >= 1

\* C29 witness: with retries = 0 one call has ended in the AssertionError
\* without any call of the function, the other has not entered the loop yet
C29_Witness ==
    /\ r_kind = "wrapper"
    /\ r_retries = 0
    /\ r_pc[1] = "assert_failed"
    /\ r_calls[1] = <<>>
    /\ r_last_exc[1] = "none"
    /\ r_pc[2] = "call"

====
